---------------------------- MODULE Spec2Model ----------------------------
(***************************************************************************)
(* A model of the ppl structured parallel-processing runtime:              *)
(*   - the pipeline node machinery (source, replicated InOut stages with   *)
(*     the ordered ingress buffer and the ordered splitter, sink, and the  *)
(*     pipeline handle), specification Spec;                               *)
(*     RouteSpec runs the same steps on pipelines of two farms;            *)
(*   - the two work-stealing pools (Registry and ThreadPool) with their    *)
(*     teardown, wait() and par_map, specifications PoolSpec / PoolFair;   *)
(*     ScanSpec starts them where a worker scans its peers for a job;      *)
(*   - one channel of the mpsc wrappers (ff_buffer and flume, blocking and *)
(*     non-blocking receiver), specification ChanSpec.                     *)
(* The parts share one state vector; each specification keeps the          *)
(* variables of the other parts at their initial value.                    *)
(***************************************************************************)
EXTENDS Integers, Sequences, FiniteSets, TLC

(***************************************************************************)
(* Bounds of the pipeline model.                                           *)
(***************************************************************************)
\* the longest stream the source emits
MaxItems == 3
\* the largest batch a producer stage yields for one input
MaxBatch == 2

VARIABLES
    \* ---- pipeline ----
    stages,            \* the InOut stages of the pipeline, in order
    srcLen,            \* items the generator yields before None
    srcInf,            \* TRUE: the generator never returns None
    channels,          \* channels[s][r]: input channel of replica r of node s
    next_msg,          \* next_msg[s]: the AtomicUsize of InOutNode s
    storage,           \* storage[s]: the BTreeMap of InOutNode s
    storage_lock,      \* storage_lock[s]: thread holding the storage mutex
    ordered_splitter,  \* ordered_splitter[s] = [latest, start]
    splitter_lock,     \* thread holding the ordered_splitter mutex
    pc,                \* pc[t]: position of thread t
    call,              \* call[t]: the send() call thread t is executing
    local,             \* local[t]: the locals of the rts loop of thread t
    stop,              \* the stop request of the handle's drop
    srcOrder,          \* the source's order counter
    handle,            \* state of the Parallel handle and of the thread that owns it
    sinkLog,           \* messages given to the sink's run, in order
    termSent,          \* termSent[s]: orders of the Terminates node s sent downstream
    received,          \* received[s]: NewTask/Dropped messages passed to send() of node s
    batches,           \* batches[s][k]: size of the batch produce() gave for input k
    emitted,           \* emitted[s][r]: orders of the messages put on channels[s][r], in order
    \* ---- pools ----
    pool,              \* "Registry" or "ThreadPool", and what its owner does with it
    input,             \* the elements given to par_map / the jobs given to execute
    global,            \* the Injector<Job>
    worker,            \* worker[w]: the local FIFO deque of worker w
    stealers,          \* stealers[w]: the stealers registered with worker w
    wpc,               \* wpc[w]: position of worker w in run()
    wstate,            \* wstate[w]: the locals of run(): stop, the job fetched, the scan index
    total_tasks,       \* ThreadPool::total_tasks
    ran,               \* ran[j]: how many times job j has run to completion
    owner,             \* the thread that owns the pool: position and loop index
    rx,                \* the channel of par_map
    unordered_map,     \* the BTreeMap of par_map
    output,            \* what par_map returned
    \* ---- one channel ----
    chan,              \* the channel built: its implementation and its blocking flag
    buffer,            \* the queue of the underlying library (ff_buffer, flume)
    tx,                \* tx[s]: the sender handle of thread s and what it has sent
    consumer,          \* the thread that holds the receiver
    sendLog            \* the items pushed, in the order the channel took them

pipeVars == <<stages, srcLen, srcInf, channels, next_msg, storage, storage_lock,
              ordered_splitter, splitter_lock, pc, call, local, stop, srcOrder,
              handle, sinkLog, termSent, received, batches, emitted>>

poolVars == <<pool, input, global, worker, stealers, wpc, wstate, total_tasks, ran,
              owner, rx, unordered_map, output>>

chanVars == <<chan, buffer, tx, consumer, sendLog>>

vars == <<pipeVars, poolVars, chanVars>>

(***************************************************************************)
(* Topology.  Node 0 is the source, nodes 1..NStages the InOut stages,     *)
(* node NStages+1 the sink.                                                *)
(***************************************************************************)
Stage(R, ord, prod, filt, blk) ==
    [R |-> R, ordered |-> ord, producer |-> prod, filter |-> filt, blocking |-> blk]

NStages == Len(stages)
SinkId == NStages + 1
Nodes == 1..SinkId

\* Node::get_num_of_replicas
get_num_of_replicas(s) == IF s = SinkId THEN 1 ELSE stages[s].R

Src == <<0, 0>>
Snk == <<SinkId, 0>>
Main == <<-1, 0>>
Replicas(s) == {<<s, r>> : r \in 0..(stages[s].R - 1)}
AllReplicas == UNION {Replicas(s) : s \in 1..NStages}
Threads == {Src, Snk, Main} \cup AllReplicas
NoThread == <<-2, 0>>

\* the node a thread sends to
Target(t) == IF t = Main THEN handle.node + 1 ELSE t[1] + 1

\* the id given to InOutNode::new by propagate!: 1 for the first stage, then the
\* previous id plus the previous stage's replicas
RECURSIVE NodeId(_)
NodeId(s) == IF s = 1 THEN 1 ELSE NodeId(s - 1) + stages[s - 1].R

Msg(op, val, order) == [op |-> op, val |-> val, order |-> order]

NoCall == [op |-> "None", val |-> 0, order |-> 0, rec |-> 0, c |-> 0, old |-> 0,
           nested |-> FALSE, orig |-> "None"]
\* queue.insert(order, msg)
Insert(map, key, msg) == [k \in DOMAIN map \cup {key} |-> IF k = key THEN msg ELSE map[k]]

\* queue.remove(&c)
Remove(map, key) == [k \in DOMAIN map \ {key} |-> map[k]]

NoLocal == [counter |-> 0, order |-> 0, tmp |-> <<>>, cs |-> 0]


(***************************************************************************)
(* Starting a call of next_node.send(Message::new(op, order), rec).        *)
(***************************************************************************)
\* send(): rec_id >= job_infos.len() is reduced modulo the replica count
RecId(d, rec) == IF rec >= get_num_of_replicas(d) THEN rec % get_num_of_replicas(d) ELSE rec

\* send(): the test channels.len() == 1 && ordered, which guards the load of next_msg
Serialising(d) == d # SinkId /\ stages[d].R = 1 /\ stages[d].ordered

\* next_node.send(Message::new(op, order), counter)
NewCall(d, op, val, order, rec) ==
    [op |-> op, val |-> val, order |-> order, rec |-> RecId(d, rec), c |-> 0,
     old |-> 0, nested |-> FALSE, orig |-> op]

EntryPc(d) == IF Serialising(d) THEN "check" ELSE "fwd"

Count(d, op) ==
    IF d # SinkId /\ op # "Terminate"
    THEN [received EXCEPT ![d] = @ + 1]
    ELSE received

(***************************************************************************)
(* The source's worker loop.                                               *)
(***************************************************************************)
\* the replica of the next node the source sends item `order` to
SourceSelector(order) == order % get_num_of_replicas(1)

\* one iteration: a stop request or a None of the generator sends Terminate with
\* the number of items emitted, Some(x) sends NewTask(x) with the next order id
SourceRun ==
    /\ pc[Src] = "run"
    /\ IF stop \/ (~srcInf /\ srcOrder >= srcLen)
       THEN call' = [call EXCEPT ![Src] = NewCall(1, "Terminate", 0, srcOrder, 0)]
       ELSE /\ srcOrder < MaxItems
            /\ call' = [call EXCEPT ![Src] =
                          NewCall(1, "NewTask", srcOrder + 1, srcOrder, SourceSelector(srcOrder))]
    /\ received' = Count(1, call'[Src].op)
    /\ pc' = [pc EXCEPT ![Src] = EntryPc(1)]
    /\ UNCHANGED <<stages, srcLen, srcInf, channels, next_msg, storage, storage_lock,
                   ordered_splitter, splitter_lock, local, stop, srcOrder, handle,
                   sinkLog, termSent, batches,
                   emitted, poolVars, chanVars>>

\* send returned: after a NewTask the order counter grows, after Terminate the
\* worker exits
SourceReturn ==
    /\ IF call[Src].orig = "Terminate"
       THEN pc' = [pc EXCEPT ![Src] = "exit"] /\ UNCHANGED srcOrder
       ELSE pc' = [pc EXCEPT ![Src] = "run"] /\ srcOrder' = srcOrder + 1
    /\ call' = [call EXCEPT ![Src] = NoCall]
    /\ UNCHANGED <<ordered_splitter, splitter_lock, local, handle, received>>

(***************************************************************************)
(* InOutNode::rts, the loop of replica t = <<s, r>>.                       *)
(***************************************************************************)
\* the id rts is given: the node's id plus the replica's index
RtsId(t) == NodeId(t[1]) + t[2]

\* counter before the loop
InitialCounter(t) ==
    LET R == stages[t[1]].R
        Rn == get_num_of_replicas(t[1] + 1)
    IN  IF Rn > R /\ R # 1 THEN RtsId(t) * (Rn \div R)
        ELSE IF Rn <= R THEN RtsId(t)
        ELSE 0

\* top of the loop: counter is reset when it has run past the next node's replicas
LoopTop(t, counter) ==
    IF get_num_of_replicas(t[1] + 1) > stages[t[1]].R /\ counter >= get_num_of_replicas(t[1] + 1)
    THEN 0 ELSE counter

\* bottom of the loop: counter advances when the next node has more replicas
LoopEnd(t, counter) ==
    IF get_num_of_replicas(t[1] + 1) > stages[t[1]].R THEN counter + 1 ELSE counter

\* the batch collected from produce() for input v: k items
Produced(v, k) == [j \in 1..k |-> 10 * v + j]

\* a splitter that forgets the count of the items produced so far
SplitterSetLatest(order, count_splitter) == [latest |-> order + 1, start |-> 0]

\* ordered_splitter.set(order + 1, count_splitter)
SplitterSet(order, count_splitter) == [latest |-> order + 1, start |-> count_splitter]

\* a replica that numbers what it sends by its own count of messages
OutputRenumbered(m, some, cnt) ==
    IF m.op = "NewTask" /\ some THEN Msg("NewTask", m.val, cnt)
    ELSE Msg("Dropped", 0, cnt)

\* what a replica of a non-producer stage sends for the message m: NewTask(v)
\* with the order of m when run returned Some(v), else Dropped with that order
Output(m, some, cnt) ==
    IF m.op = "NewTask" /\ some THEN Msg("NewTask", m.val, m.order)
    ELSE Msg("Dropped", 0, m.order)

\* channel_in.receive() returned a message: Terminate leaves the loop, Dropped is
\* passed on, NewTask is given to run (and, in a producer, produce is drained)
Receive(t) ==
    LET s == t[1]
        m == Head(channels[s][t[2]])
        cnt == LoopTop(t, local[t].counter)
    IN  /\ pc[t] = "recv"
        /\ channels[s][t[2]] # <<>>
        /\ channels' = [channels EXCEPT ![s][t[2]] = Tail(@)]
        /\ IF m.op = "NewTask" /\ stages[s].producer
           THEN \E k \in 0..MaxBatch : batches' = [batches EXCEPT ![s] = Insert(@, m.order, k)]
           ELSE UNCHANGED batches
        /\ CASE m.op = "Terminate" ->
                  /\ pc' = [pc EXCEPT ![t] = "exit"]
                  /\ local' = [local EXCEPT ![t].counter = cnt]
                  /\ UNCHANGED <<call, received>>
             [] m.op = "Dropped" ->
                  /\ LET o == Output(m, FALSE, cnt)
                     IN  call' = [call EXCEPT ![t] = NewCall(s + 1, o.op, o.val, o.order, cnt)]
                  /\ pc' = [pc EXCEPT ![t] = EntryPc(s + 1)]
                  /\ local' = [local EXCEPT ![t].counter = cnt]
                  /\ received' = Count(s + 1, "Dropped")
             [] m.op = "NewTask" /\ ~stages[s].producer ->
                  /\ \E some \in IF stages[s].filter THEN BOOLEAN ELSE {TRUE} :
                        LET o == Output(m, some, cnt)
                        IN  call' = [call EXCEPT ![t] = NewCall(s + 1, o.op, o.val, o.order, cnt)]
                  /\ pc' = [pc EXCEPT ![t] = EntryPc(s + 1)]
                  /\ local' = [local EXCEPT ![t].counter = cnt]
                  /\ received' = Count(s + 1, "NewTask")
             [] m.op = "NewTask" /\ stages[s].producer ->
                     LET tmp == Produced(m.val, batches'[s][m.order])
                     IN  IF stages[s].ordered
                         THEN /\ local' = [local EXCEPT ![t] =
                                   [counter |-> cnt, order |-> m.order, tmp |-> tmp, cs |-> 0]]
                              /\ pc' = [pc EXCEPT ![t] = "split_wait"]
                              /\ UNCHANGED <<call, received>>
                         ELSE IF tmp = <<>>
                         THEN /\ local' = [local EXCEPT ![t].counter = LoopEnd(t, cnt)]
                              /\ UNCHANGED <<pc, call, received>>
                         ELSE /\ local' = [local EXCEPT ![t] =
                                   [counter |-> cnt, order |-> m.order, tmp |-> Tail(tmp), cs |-> 0]]
                              /\ call' = [call EXCEPT ![t] =
                                   NewCall(s + 1, "NewTask", Head(tmp), m.order, cnt)]
                              /\ pc' = [pc EXCEPT ![t] = EntryPc(s + 1)]
                              /\ received' = Count(s + 1, "NewTask")
        /\ UNCHANGED <<stages, srcLen, srcInf, next_msg, storage, storage_lock,
                       ordered_splitter, splitter_lock, stop, srcOrder, handle, sinkLog,
                       termSent,
                   emitted, poolVars, chanVars>>

\* a non-blocking receive found the channel empty (Ok(None)): the iteration ends,
\* and counter moves when the next node has more replicas
EmptyPoll(t) ==
    LET s == t[1]
    IN  /\ pc[t] = "recv"
        /\ ~stages[s].blocking
        /\ channels[s][t[2]] = <<>>
        /\ get_num_of_replicas(s + 1) > stages[s].R
        /\ local' = [local EXCEPT ![t].counter = LoopEnd(t, LoopTop(t, @))]
        /\ UNCHANGED <<stages, srcLen, srcInf, channels, next_msg, storage, storage_lock,
                       ordered_splitter, splitter_lock, pc, call, stop, srcOrder, handle,
                       sinkLog, termSent, received, batches,
                   emitted, poolVars, chanVars>>

\* a splitter that lets a replica through whatever latest is
any_turn(s, order) == TRUE

\* if latest == order, with (latest, end) = ordered_splitter.get()
my_turn(s, order) == ordered_splitter[s].latest = order

\* the ordered splitter: with the mutex held and latest == order the replica takes
\* start as its first order id; otherwise it waits on the condition variable
SplitEnter(t) ==
    LET s == t[1]
        l == local[t]
    IN  /\ pc[t] = "split_wait"
        /\ splitter_lock[s] = NoThread
        /\ my_turn(s, l.order)
        /\ IF l.tmp = <<>>
           THEN /\ ordered_splitter' = [ordered_splitter EXCEPT ![s] =
                                          SplitterSet(l.order, ordered_splitter[s].start)]
                /\ local' = [local EXCEPT ![t] =
                               [NoLocal EXCEPT !.counter = LoopEnd(t, l.counter)]]
                /\ pc' = [pc EXCEPT ![t] = "recv"]
                /\ UNCHANGED <<splitter_lock, call, received>>
           ELSE /\ splitter_lock' = [splitter_lock EXCEPT ![s] = t]
                /\ local' = [local EXCEPT ![t].cs = ordered_splitter[s].start,
                                          ![t].tmp = Tail(l.tmp)]
                /\ call' = [call EXCEPT ![t] =
                              NewCall(s + 1, "NewTask", Head(l.tmp),
                                      ordered_splitter[s].start, l.counter)]
                /\ pc' = [pc EXCEPT ![t] = EntryPc(s + 1)]
                /\ received' = Count(s + 1, "NewTask")
                /\ UNCHANGED ordered_splitter
        /\ UNCHANGED <<stages, srcLen, srcInf, channels, next_msg, storage, storage_lock,
                       stop, srcOrder, handle, sinkLog, termSent, batches,
                   emitted, poolVars, chanVars>>

\* next_node.send returned to the replica
ReplicaReturn(t) ==
    LET s == t[1]
        l == local[t]
    IN  /\ IF splitter_lock[s] = t
           THEN \* inside the ordered splitter: count_splitter += 1
                IF l.tmp # <<>>
                THEN /\ local' = [local EXCEPT ![t].cs = l.cs + 1, ![t].tmp = Tail(l.tmp)]
                     /\ call' = [call EXCEPT ![t] =
                                   NewCall(s + 1, "NewTask", Head(l.tmp), l.cs + 1, l.counter)]
                     /\ pc' = [pc EXCEPT ![t] = EntryPc(s + 1)]
                     /\ received' = Count(s + 1, "NewTask")
                     /\ UNCHANGED <<ordered_splitter, splitter_lock>>
                ELSE /\ ordered_splitter' = [ordered_splitter EXCEPT ![s] =
                                               SplitterSet(l.order, l.cs + 1)]
                     /\ splitter_lock' = [splitter_lock EXCEPT ![s] = NoThread]
                     /\ local' = [local EXCEPT ![t] =
                                    [NoLocal EXCEPT !.counter = LoopEnd(t, l.counter)]]
                     /\ call' = [call EXCEPT ![t] = NoCall]
                     /\ pc' = [pc EXCEPT ![t] = "recv"]
                     /\ UNCHANGED received
           ELSE IF l.tmp # <<>>
                THEN \* an unordered producer sends the rest of its batch
                     /\ local' = [local EXCEPT ![t].tmp = Tail(l.tmp)]
                     /\ call' = [call EXCEPT ![t] =
                                   NewCall(s + 1, "NewTask", Head(l.tmp), l.order, l.counter)]
                     /\ pc' = [pc EXCEPT ![t] = EntryPc(s + 1)]
                     /\ received' = Count(s + 1, "NewTask")
                     /\ UNCHANGED <<ordered_splitter, splitter_lock>>
                ELSE /\ local' = [local EXCEPT ![t] =
                                    [NoLocal EXCEPT !.counter = LoopEnd(t, l.counter)]]
                     /\ call' = [call EXCEPT ![t] = NoCall]
                     /\ pc' = [pc EXCEPT ![t] = "recv"]
                     /\ UNCHANGED <<ordered_splitter, splitter_lock, received>>
        /\ UNCHANGED <<srcOrder, handle>>


\* a collect that does not pass on to the next node
CollectAgain ==
    /\ pc' = [pc EXCEPT ![Main] = "idle"]
    /\ call' = [call EXCEPT ![Main] = NoCall]
    /\ UNCHANGED <<ordered_splitter, splitter_lock, local, srcOrder, received, handle>>

\* InOutNode::collect: after wait, collect of the next node
NodeCollect ==
    /\ pc' = [pc EXCEPT ![Main] = "idle"]
    /\ call' = [call EXCEPT ![Main] = NoCall]
    /\ handle' = [handle EXCEPT !.node = @ + 1]
    /\ UNCHANGED <<ordered_splitter, splitter_lock, local, srcOrder, received>>

\* the return of next_node.send(..) to the thread that called it
Return(t) ==
    IF t = Src THEN SourceReturn
    ELSE IF t = Main THEN NodeCollect
    ELSE ReplicaReturn(t)

(***************************************************************************)
(* InOutNode::send and Node::send of the sink, one shared access a step.   *)
(***************************************************************************)
\* a comparison that takes every message for the next one
always_next(order, d) == FALSE

\* order != self.next_msg.load(Ordering::SeqCst)
out_of_order(order, d) == order # next_msg[d]

\* an ingress whose Terminate arm forwards without the comparison
terminate_unchecked(c, d) ==
    IF c.op # "Terminate" /\ out_of_order(c.order, d) THEN "save" ELSE "fwd"

\* the arm of send() a message takes at a single-replica ordered node: the same
\* test in the NewTask, Dropped and Terminate arms
ingress_arm(c, d) == IF out_of_order(c.order, d) THEN "save" ELSE "fwd"

\* the comparison order != next_msg.load() of a single-replica ordered node
SendCheck(t) ==
    /\ pc[t] = "check"
    /\ pc' = [pc EXCEPT ![t] = ingress_arm(call[t], Target(t))]
    /\ UNCHANGED <<stages, srcLen, srcInf, channels, next_msg, storage, storage_lock,
                   ordered_splitter, splitter_lock, call, local, stop, srcOrder,
                   handle, sinkLog, termSent, received, batches,
                   emitted, poolVars, chanVars>>

\* what the Terminate branch stores in next_msg
TerminateStore(d, order) == [next_msg EXCEPT ![d] = order]

\* a Terminate that is put on the channel of one replica only
ForwardOne(d, c) ==
    [channels EXCEPT ![d][c.rec] = Append(@, Msg(c.op, c.val, c.order))]

\* the channel(s) a forwarded message is put on
Forward(d, c) ==
    IF c.op = "Terminate"
    THEN [channels EXCEPT ![d] = [r \in DOMAIN @ |-> Append(@[r], Msg(c.op, c.val, c.order))]]
    ELSE [channels EXCEPT ![d][c.rec] = Append(@, Msg(c.op, c.val, c.order))]

\* the else branch: the message goes on the replica's channel (a Terminate on every
\* channel, and next_msg is set to its order)
SendFwd(t) ==
    LET d == Target(t)
        c == call[t]
        ord == d # SinkId /\ stages[d].ordered
    IN  /\ pc[t] = "fwd"
        /\ channels' = Forward(d, c)
        /\ emitted' = [emitted EXCEPT ![d] =
                          [r \in DOMAIN @ |->
                              IF c.op = "Terminate" \/ r = c.rec
                              THEN Append(@[r], c.order) ELSE @[r]]]
        /\ next_msg' = IF c.op = "Terminate" /\ ord THEN TerminateStore(d, c.order) ELSE next_msg
        /\ IF c.op # "Terminate" /\ ord
           THEN /\ pc' = [pc EXCEPT ![t] = "inc_load"]
                /\ UNCHANGED <<call, local, srcOrder, ordered_splitter, splitter_lock,
                               received, handle>>
           ELSE IF c.nested
           THEN /\ pc' = [pc EXCEPT ![t] = "pend_reload"]
                /\ UNCHANGED <<call, local, srcOrder, ordered_splitter, splitter_lock,
                               received, handle>>
           ELSE Return(t)
        /\ UNCHANGED <<stages, srcLen, srcInf, storage, storage_lock, stop, sinkLog,
                       termSent, batches,
                   poolVars, chanVars>>

\* let old_c = self.next_msg.load(..)
SendIncLoad(t) ==
    /\ pc[t] = "inc_load"
    /\ call' = [call EXCEPT ![t].old = next_msg[Target(t)]]
    /\ pc' = [pc EXCEPT ![t] = "inc_store"]
    /\ UNCHANGED <<stages, srcLen, srcInf, channels, next_msg, storage, storage_lock,
                   ordered_splitter, splitter_lock, local, stop, srcOrder, handle,
                   sinkLog, termSent, received, batches,
                   emitted, poolVars, chanVars>>

\* self.next_msg.store(old_c + 1, ..)
SendIncStore(t) ==
    /\ pc[t] = "inc_store"
    /\ next_msg' = [next_msg EXCEPT ![Target(t)] = call[t].old + 1]
    /\ IF call[t].nested
       THEN /\ pc' = [pc EXCEPT ![t] = "pend_reload"]
            /\ UNCHANGED <<call, local, srcOrder, ordered_splitter, splitter_lock,
                           received, handle>>
       ELSE Return(t)
    /\ UNCHANGED <<stages, srcLen, srcInf, channels, storage, storage_lock, stop,
                   sinkLog, termSent, batches,
                   emitted, poolVars, chanVars>>

\* the message save_to_storage is given: the order field of a NewTask or Dropped
\* holds rec_id, that of a Terminate its order
StoredMessage(c) == Msg(c.op, c.val, IF c.op = "Terminate" THEN c.order ELSE c.rec)

\* save_to_storage: lock, insert, unlock.  A nested call made by send_pending
\* finds the mutex held by its own thread and never returns from lock().
save_to_storage(t) ==
    LET d == Target(t)
    IN  /\ pc[t] = "save"
        /\ storage_lock[d] = NoThread
        /\ storage' = [storage EXCEPT ![d] = Insert(@, call[t].order, StoredMessage(call[t]))]
        /\ pc' = [pc EXCEPT ![t] = "pend_lock"]
        /\ UNCHANGED <<stages, srcLen, srcInf, channels, next_msg, storage_lock,
                       ordered_splitter, splitter_lock, call, local, stop, srcOrder,
                       handle, sinkLog, termSent, received, batches,
                   emitted, poolVars, chanVars>>

\* a send_pending that takes the smallest key of the storage for c
first_key(d) ==
    IF DOMAIN storage[d] = {} THEN next_msg[d]
    ELSE CHOOSE k \in DOMAIN storage[d] : \A j \in DOMAIN storage[d] : k <= j

\* send_pending: c = self.next_msg.load(..)
pending_key(d) == next_msg[d]

\* send_pending: lock the storage and load next_msg into c
PendLock(t) ==
    LET d == Target(t)
    IN  /\ pc[t] = "pend_lock"
        /\ storage_lock[d] = NoThread
        /\ storage_lock' = [storage_lock EXCEPT ![d] = t]
        /\ call' = [call EXCEPT ![t].c = pending_key(d)]
        /\ pc' = [pc EXCEPT ![t] = "pend_loop"]
        /\ UNCHANGED <<stages, srcLen, srcInf, channels, next_msg, storage,
                       ordered_splitter, splitter_lock, local, stop, srcOrder, handle,
                       sinkLog, termSent, received, batches,
                   emitted, poolVars, chanVars>>

\* the rec_id send_pending passes to the nested send
PendingRec(m) == IF m.op = "Terminate" THEN 0 ELSE m.order

\* send_pending: one test of the while loop.  With the key present the message is
\* removed and the nested self.send(Message::new(op, c), ..) makes its comparison
\* with next_msg; otherwise the guard is dropped and send returns.
PendLoop(t) ==
    LET d == Target(t)
        c == call[t].c
    IN  /\ pc[t] = "pend_loop"
        /\ IF c \in DOMAIN storage[d]
           THEN LET m == storage[d][c]
                IN  /\ storage' = [storage EXCEPT ![d] = Remove(@, c)]
                    /\ call' = [call EXCEPT ![t].op = m.op, ![t].val = m.val,
                                            ![t].order = c,
                                            ![t].rec = RecId(d, PendingRec(m)),
                                            ![t].nested = TRUE]
                    /\ pc' = [pc EXCEPT ![t] = IF out_of_order(c, d) THEN "save" ELSE "fwd"]
                    /\ UNCHANGED <<storage_lock, local, srcOrder, ordered_splitter,
                                   splitter_lock, received, handle>>
           ELSE /\ storage_lock' = [storage_lock EXCEPT ![d] = NoThread]
                /\ Return(t)
                /\ UNCHANGED storage
        /\ UNCHANGED <<stages, srcLen, srcInf, channels, next_msg, stop, sinkLog,
                       termSent, batches,
                   emitted, poolVars, chanVars>>

\* send_pending: c = self.next_msg.load(..) at the end of the loop body
PendReload(t) ==
    /\ pc[t] = "pend_reload"
    /\ call' = [call EXCEPT ![t].c = pending_key(Target(t))]
    /\ pc' = [pc EXCEPT ![t] = "pend_loop"]
    /\ UNCHANGED <<stages, srcLen, srcInf, channels, next_msg, storage, storage_lock,
                   ordered_splitter, splitter_lock, local, stop, srcOrder, handle,
                   sinkLog, termSent, received, batches,
                   emitted, poolVars, chanVars>>


(***************************************************************************)
(* The sink's worker loop.                                                 *)
(***************************************************************************)
\* NewTask is given to run, Dropped is skipped, Terminate ends the loop
SinkReceive ==
    LET m == Head(channels[SinkId][0])
    IN  /\ pc[Snk] = "recv"
        /\ channels[SinkId][0] # <<>>
        /\ channels' = [channels EXCEPT ![SinkId][0] = Tail(@)]
        /\ sinkLog' = IF m.op = "NewTask" THEN Append(sinkLog, m) ELSE sinkLog
        /\ pc' = [pc EXCEPT ![Snk] = IF m.op = "Terminate" THEN "exit" ELSE "recv"]
        /\ UNCHANGED <<stages, srcLen, srcInf, next_msg, storage, storage_lock,
                       ordered_splitter, splitter_lock, call, local, stop, srcOrder,
                       handle, termSent, received, batches,
                   emitted, poolVars, chanVars>>

\* finalize of a counting sink
Finalize == Len(sinkLog)

(***************************************************************************)
(* The pipeline handle: wait_and_collect, drop, and the chain of           *)
(* collect() calls it starts.                                              *)
(***************************************************************************)
\* a replace that leaves the first block in the handle
LeaveFirstBlock(h) == h

\* std::mem::replace(&mut self.first_block, None)
TakeFirstBlock(h) == [h EXCEPT !.first_block = FALSE]

\* the thread that owns the handle is between two calls, the handle not dropped
Free == handle.alive /\ handle.op \in {"idle", "collected"}

\* wait_and_collect takes the first block out of the handle and collects it:
\* OutNode::collect joins the source's job and passes to the first stage
WaitAndCollect ==
    /\ handle.first_block /\ Free
    /\ pc[Src] = "exit"
    /\ handle' = [TakeFirstBlock(handle) EXCEPT !.op = "collect", !.node = 1,
                                                !.collects = @ + 1]
    /\ UNCHANGED <<stages, srcLen, srcInf, channels, next_msg, storage, storage_lock,
                   ordered_splitter, splitter_lock, pc, call, local, stop, srcOrder,
                   sinkLog, termSent, received, batches,
                   emitted, poolVars, chanVars>>

\* drop of a handle that still holds its first block: terminate() asks the
\* source to stop
DropHandle ==
    /\ handle.first_block /\ Free
    /\ stop' = TRUE
    /\ handle' = [TakeFirstBlock(handle) EXCEPT !.op = "terminate", !.node = 0,
                                                !.terminates = @ + 1, !.alive = FALSE]
    /\ UNCHANGED <<stages, srcLen, srcInf, channels, next_msg, storage, storage_lock,
                   ordered_splitter, splitter_lock, pc, call, local, srcOrder, sinkLog,
                   termSent, received, batches,
                   emitted, poolVars, chanVars>>

\* wait_and_collect on a handle whose first block is gone: None
WaitAndCollectNone ==
    /\ ~handle.first_block /\ Free
    /\ handle.second = "nocall"
    /\ handle' = [handle EXCEPT !.second = "None"]
    /\ UNCHANGED <<stages, srcLen, srcInf, channels, next_msg, storage, storage_lock,
                   ordered_splitter, splitter_lock, pc, call, local, stop, srcOrder,
                   sinkLog, termSent, received, batches,
                   emitted, poolVars, chanVars>>

\* drop of a handle whose first block is gone: nothing is done
DropCollected ==
    /\ ~handle.first_block /\ Free
    /\ handle' = [handle EXCEPT !.alive = FALSE]
    /\ UNCHANGED <<stages, srcLen, srcInf, channels, next_msg, storage, storage_lock,
                   ordered_splitter, splitter_lock, pc, call, local, stop, srcOrder,
                   sinkLog, termSent, received, batches,
                   emitted, poolVars, chanVars>>

\* terminate(): the source's job is joined and the stages are collected
JoinSource ==
    /\ handle.op = "terminate" /\ handle.node = 0
    /\ pc[Src] = "exit"
    /\ handle' = [handle EXCEPT !.node = 1]
    /\ UNCHANGED <<stages, srcLen, srcInf, channels, next_msg, storage, storage_lock,
                   ordered_splitter, splitter_lock, pc, call, local, stop, srcOrder,
                   sinkLog, termSent, received, batches,
                   emitted, poolVars, chanVars>>

\* wait(): the order of the Terminate sent to the next node
TerminateOrder(s) ==
    IF stages[s].ordered /\ ~stages[s].producer THEN next_msg[s]
    ELSE IF stages[s].ordered /\ stages[s].producer THEN ordered_splitter[s].start
    ELSE 0

\* a wait that joins the first replica only
JoinedFirst(s) == pc[<<s, 0>>] = "exit"

\* a wait that joins no replica
JoinedNone(s) == TRUE

\* wait(): job.wait() has returned for every job of the node
Joined(s) == \A t \in Replicas(s) : pc[t] = "exit"

\* InOutNode::wait: every replica's job is joined, then Terminate is sent on
NodeWait ==
    LET s == handle.node
    IN  /\ handle.op \in {"collect", "terminate"} /\ s \in 1..NStages
        /\ pc[Main] = "idle"
        /\ Joined(s)
        /\ call' = [call EXCEPT ![Main] = NewCall(s + 1, "Terminate", 0, TerminateOrder(s), 0)]
        /\ pc' = [pc EXCEPT ![Main] = EntryPc(s + 1)]
        /\ termSent' = [termSent EXCEPT ![s] = Append(@, TerminateOrder(s))]
        /\ UNCHANGED <<stages, srcLen, srcInf, channels, next_msg, storage, storage_lock,
                       ordered_splitter, splitter_lock, local, stop, srcOrder, handle,
                       sinkLog, received, batches,
                   emitted, poolVars, chanVars>>

\* the sink's collect: its job is joined and finalize gives the result
SinkCollect ==
    /\ handle.op \in {"collect", "terminate"} /\ handle.node = SinkId
    /\ pc[Main] = "idle"
    /\ pc[Snk] = "exit"
    /\ handle' = [handle EXCEPT !.op = IF @ = "collect" THEN "collected" ELSE "dropped",
                                !.result = Finalize]
    /\ UNCHANGED <<stages, srcLen, srcInf, channels, next_msg, storage, storage_lock,
                   ordered_splitter, splitter_lock, pc, call, local, stop, srcOrder,
                   sinkLog, termSent, received, batches,
                   emitted, poolVars, chanVars>>

(***************************************************************************)
(* The pipelines checked.                                                  *)
(***************************************************************************)
\* the largest number of replicas of a stage
MaxReplicas == 2

\* every single-stage pipeline (a farm) with up to MaxReplicas replicas; the
\* output of a producer's run is not looked at, so a producer is no filter
Farms ==
    {<<Stage(c[1], c[2], c[3], c[4], TRUE)>> :
        c \in {d \in (1..MaxReplicas) \X BOOLEAN \X BOOLEAN \X BOOLEAN : ~(d[3] /\ d[4])}}

\* two-stage pipelines: an ordered farm before a single-replica ordered stage, an
\* unordered stage before an ordered farm and before a single-replica ordered
\* stage, a filtering stage before an ordered producer, and an ordered stage
\* before an unordered one
Chains ==
    {<<Stage(2, TRUE, FALSE, TRUE, FALSE), Stage(1, TRUE, FALSE, FALSE, FALSE)>>,
     <<Stage(1, FALSE, FALSE, FALSE, FALSE), Stage(2, TRUE, FALSE, TRUE, FALSE)>>,
     <<Stage(1, FALSE, FALSE, FALSE, TRUE), Stage(1, TRUE, FALSE, TRUE, TRUE)>>,
     <<Stage(1, TRUE, FALSE, TRUE, TRUE), Stage(2, TRUE, TRUE, FALSE, TRUE)>>,
     <<Stage(1, TRUE, FALSE, FALSE, TRUE), Stage(1, FALSE, FALSE, FALSE, TRUE)>>}

Configs == Farms \cup Chains

\* the pools, unused
PoolIdle ==
    /\ pool = [kind |-> "None", mode |-> "None", N |-> 0]
    /\ input = <<>>
    /\ global = <<>>
    /\ worker = <<>>
    /\ stealers = <<>>
    /\ wpc = <<>>
    /\ wstate = <<>>
    /\ total_tasks = 0
    /\ ran = <<>>
    /\ owner = [pc |-> "done", i |-> 0, arrived |-> <<>>]
    /\ rx = <<>>
    /\ unordered_map = <<>>
    /\ output = <<>>

\* the channel model, unused
ChanIdle ==
    /\ chan = [kind |-> "None", blocking |-> FALSE, N |-> 0]
    /\ buffer = <<>>
    /\ tx = <<>>
    /\ consumer = [pc |-> "dropped", last |-> [tag |-> "nocall", val |-> <<>>],
                   log |-> <<>>, seen |-> {}, returns |-> 0]
    /\ sendLog = <<>>

\* the state after construction of one of the pipelines cfgs
PipeInit(cfgs) ==
    /\ PoolIdle
    /\ ChanIdle
    /\ stages \in cfgs
    /\ srcInf \in BOOLEAN
    /\ srcLen \in IF srcInf THEN {MaxItems} ELSE 0..MaxItems
    /\ channels = [s \in Nodes |-> [r \in 0..(get_num_of_replicas(s) - 1) |-> <<>>]]
    /\ next_msg = [s \in 1..NStages |-> 0]
    /\ storage = [s \in 1..NStages |-> <<>>]
    /\ storage_lock = [s \in 1..NStages |-> NoThread]
    /\ ordered_splitter = [s \in 1..NStages |-> [latest |-> 0, start |-> 0]]
    /\ splitter_lock = [s \in 1..NStages |-> NoThread]
    /\ pc = [t \in Threads |-> IF t = Src THEN "run" ELSE IF t = Main THEN "idle" ELSE "recv"]
    /\ call = [t \in Threads |-> NoCall]
    /\ local = [t \in Threads |->
                  IF t \in AllReplicas THEN [NoLocal EXCEPT !.counter = InitialCounter(t)]
                  ELSE NoLocal]
    /\ stop = FALSE
    /\ srcOrder = 0
    /\ handle = [first_block |-> TRUE, op |-> "idle", node |-> 0, result |-> -1,
                 collects |-> 0, terminates |-> 0, second |-> "nocall", alive |-> TRUE]
    /\ sinkLog = <<>>
    /\ termSent = [s \in 1..NStages |-> <<>>]
    /\ received = [s \in 1..NStages |-> 0]
    /\ batches = [s \in 1..NStages |-> <<>>]
    /\ emitted = [s \in Nodes |-> [r \in 0..(get_num_of_replicas(s) - 1) |-> <<>>]]

Init == PipeInit(Configs)

Senders == AllReplicas \cup {Src, Main}

Next ==
    \/ SourceRun
    \/ \E t \in AllReplicas : Receive(t)
    \/ \E t \in AllReplicas : EmptyPoll(t)
    \/ \E t \in AllReplicas : SplitEnter(t)
    \/ \E t \in Senders : SendCheck(t)
    \/ \E t \in Senders : SendFwd(t)
    \/ \E t \in Senders : SendIncLoad(t)
    \/ \E t \in Senders : SendIncStore(t)
    \/ \E t \in Senders : save_to_storage(t)
    \/ \E t \in Senders : PendLock(t)
    \/ \E t \in Senders : PendLoop(t)
    \/ \E t \in Senders : PendReload(t)
    \/ SinkReceive
    \/ WaitAndCollect
    \/ DropHandle
    \/ WaitAndCollectNone
    \/ DropCollected
    \/ JoinSource
    \/ NodeWait
    \/ SinkCollect

Spec == Init /\ [][Next]_vars


(***************************************************************************)
(* Properties of the pipeline.                                             *)
(***************************************************************************)
\* the values the source has handed to send() so far, in emission order
Emitted == [i \in 1..srcOrder |-> i]

\* the values given to the sink's run, in order
SinkValues == [i \in 1..Len(sinkLog) |-> sinkLog[i].val]

\* the NewTask messages a stage placed before the sink has sent, in order
RECURSIVE NewTasks(_)
NewTasks(q) ==
    IF q = <<>> THEN <<>>
    ELSE IF Head(q).op = "NewTask" THEN <<Head(q)>> \o NewTasks(Tail(q))
    ELSE NewTasks(Tail(q))

SentToSink == sinkLog \o NewTasks(channels[SinkId][0])

IsPrefix(a, b) == Len(a) <= Len(b) /\ \A i \in 1..Len(a) : a[i] = b[i]

Finished == handle.op \in {"collected", "dropped"}

AllOrderedNoProducer ==
    \A s \in 1..NStages : stages[s].ordered /\ ~stages[s].producer /\ ~stages[s].filter

\* C1: in a pipeline whose InOut stages are all ordered and none a producer (and
\* whose run never returns None) the sink is given the source's values in the
\* source's order: at every moment a prefix of what was emitted, and all of it
\* once the pipeline has ended.
C1_OrderPreserved ==
    AllOrderedNoProducer =>
        /\ IsPrefix(SinkValues, [i \in 1..MaxItems |-> i])
        /\ Finished => SinkValues = Emitted

\* the batches of the inputs 0, 1, .. k-1 of stage s, one after the other, with
\* the order ids 0, 1, 2, ... they are due
RECURSIVE Batches(_, _)
Batches(s, k) ==
    IF k = 0 THEN <<>>
    ELSE Batches(s, k - 1) \o Produced(k, batches[s][k - 1])

Numbered(vals) == [i \in 1..Len(vals) |-> Msg("NewTask", vals[i], i - 1)]

\* the inputs 0..k-1 whose batch is known
KnownInputs(s) ==
    CHOOSE k \in 0..MaxItems :
        /\ \A i \in 0..(k - 1) : i \in DOMAIN batches[s]
        /\ k \notin DOMAIN batches[s]

ProducerFarm == NStages = 1 /\ stages[1].producer /\ stages[1].ordered

\* C2: a producer+ordered stage fed the inputs 0..K-1 numbers its outbound items
\* 0, 1, 2, ... without gap or repetition, batch after batch in the order of the
\* inputs and within a batch in production order; when the stage has ended, all
\* sum(b_i) items have been sent.
C2_SplitterContiguity ==
    ProducerFarm =>
        /\ IsPrefix(SentToSink, Numbered(Batches(1, KnownInputs(1))))
        /\ termSent[1] # <<>> => SentToSink = Numbered(Batches(1, srcOrder))

C2_Witness ==
    /\ ProducerFarm /\ stages[1].R = 2
    /\ handle.op = "collected"
    /\ srcOrder = MaxItems
    /\ \A k \in 0..(MaxItems - 1) : batches[1][k] = MaxBatch
    /\ Len(sinkLog) = MaxItems * MaxBatch

UnorderedFarm ==
    NStages = 1 /\ ~stages[1].ordered /\ ~stages[1].producer /\ ~stages[1].filter

\* C3: in a farm whose stage is unordered, not a producer and always returns
\* Some, the sink's run is called at most once for an item, and when the
\* pipeline has ended exactly once for every item emitted, so that a counting
\* sink finalizes to the stream length.
C3_FarmCount ==
    UnorderedFarm =>
        /\ \A i, j \in 1..Len(sinkLog) : sinkLog[i].val = sinkLog[j].val => i = j
        /\ Finished =>
              /\ {sinkLog[i].val : i \in 1..Len(sinkLog)} = 1..srcOrder
              /\ handle.result = srcOrder
        /\ handle.op = "collected" => handle.result = srcLen

C3_Witness ==
    /\ UnorderedFarm /\ stages[1].R = 2
    /\ handle.op = "collected"
    /\ handle.result = MaxItems
    /\ sinkLog[1].val # 1

\* C4: the Terminate an ordered, non-producer stage sends downstream carries the
\* number of inputs (NewTask and Dropped) the stage received.
C4_TerminateCountsInputs ==
    \A s \in 1..NStages :
        stages[s].ordered /\ ~stages[s].producer =>
            \A i \in 1..Len(termSent[s]) : termSent[s][i] = received[s]

\* C9: after the drop of a handle that was not collected, when nothing more can
\* happen every source, replica and sink thread has exited.
C9_DropTerminates ==
    (handle.op \in {"terminate", "dropped"} /\ ~ENABLED Next) =>
        \A t \in AllReplicas \cup {Src, Snk} : pc[t] = "exit"

\* C10: when wait_and_collect has returned, every job has returned (the pool has
\* no outstanding task) and every channel is empty.
C10_NoLeaks ==
    handle.op = "collected" =>
        /\ \A t \in AllReplicas \cup {Src, Snk} : pc[t] = "exit"
        /\ \A s \in Nodes : \A r \in DOMAIN channels[s] : channels[s][r] = <<>>

C10_Witness ==
    /\ handle.op = "collected"
    /\ NStages = 2
    /\ stages[2].R = 1 /\ stages[2].ordered
    /\ Len(sinkLog) = MaxItems


\* ===========================================================================
\* The pools: Registry (registry.rs) and ThreadPool (thread_pool.rs)
\* ===========================================================================
\* One owner thread builds a pool of pool.N workers, submits Len(input) jobs,
\* possibly waits for them, and drops the pool.  Jobs are numbered from 0 as
\* enumerate() numbers them.  total_tasks holds the usize v as v when
\* v < 2^63 and as v - 2^64 otherwise, so fetch_sub on 0 gives -1 (usize::MAX).

\* the largest pool
MaxWorkers == 2
\* the largest number of jobs submitted
MaxJobs == 2

Workers == 1..pool.N
Jobs == 0..(Len(input) - 1)

NewJob(j) == [tag |-> "NewJob", id |-> j]
Terminate == [tag |-> "Terminate", id |-> 0]
NoJob == [tag |-> "None", id |-> 0]

\* the locals of run() at its start
NoState == [stop |-> FALSE, job |-> NoJob, i |-> 1]

\* the pipeline, unused
PipeIdle ==
    /\ stages = <<>>
    /\ srcLen = 0
    /\ srcInf = FALSE
    /\ channels = <<>>
    /\ next_msg = <<>>
    /\ storage = <<>>
    /\ storage_lock = <<>>
    /\ ordered_splitter = <<>>
    /\ splitter_lock = <<>>
    /\ pc = <<>>
    /\ call = <<>>
    /\ local = <<>>
    /\ stop = FALSE
    /\ srcOrder = 0
    /\ handle = [first_block |-> TRUE, op |-> "idle", node |-> 0, result |-> -1,
                 collects |-> 0, terminates |-> 0, second |-> "nocall", alive |-> TRUE]
    /\ sinkLog = <<>>
    /\ termSent = <<>>
    /\ received = <<>>
    /\ batches = <<>>
    /\ emitted = <<>>

\* ----------------------------- construction ------------------------------

\* the other workers, in the order of the workers vector
RECURSIVE Others(_, _)
Others(x, w) ==
    IF w > pool.N THEN <<>>
    ELSE (IF w = x THEN <<>> ELSE <<w>>) \o Others(x, w + 1)

\* Registry::new: every worker registers the stealer of every other one
RegistryStealers(x) == Others(x, 1)

\* ThreadPool::new: the round of worker w gives w's stealer to every other
\* worker and then the others' stealers to w, so each stealer is held twice
RECURSIVE AddStealers(_, _)
AddStealers(x, w) ==
    IF w > pool.N THEN <<>>
    ELSE (IF w = x THEN Others(x, 1) ELSE <<w>>) \o AddStealers(x, w + 1)

\* what the owner does after its i-th submission
Continue(i) ==
    IF i < Len(input) THEN "execute"
    ELSE IF pool.wait THEN "wait" ELSE "drop"

\* the pools and the programs of their owners
Pools ==
    {[kind |-> "Registry", mode |-> "execute", N |-> n, wait |-> FALSE] : n \in 1..MaxWorkers}
    \cup {[kind |-> "ThreadPool", mode |-> "execute", N |-> n, wait |-> b] :
              n \in 1..MaxWorkers, b \in BOOLEAN}
    \cup {[kind |-> "ThreadPool", mode |-> "par_map", N |-> n, wait |-> TRUE] :
              n \in 1..MaxWorkers}
    \cup {[kind |-> "ThreadPool", mode |-> "par_for", N |-> n, wait |-> TRUE] :
              n \in 1..MaxWorkers}

\* the elements handed to par_map
Elems == 0..1

PoolInit ==
    /\ PipeIdle
    /\ ChanIdle
    /\ pool \in Pools
    /\ \E m \in 0..MaxJobs :
           input \in IF pool.mode = "par_map" THEN [1..m -> Elems] ELSE {[i \in 1..m |-> 0]}
    /\ global = <<>>
    /\ worker = [w \in Workers |-> <<>>]
    /\ stealers = [w \in Workers |->
                     IF pool.kind = "Registry" THEN RegistryStealers(w) ELSE AddStealers(w, 1)]
    /\ wpc = [w \in Workers |-> "queued"]
    /\ wstate = [w \in Workers |-> NoState]
    /\ total_tasks = 0
    /\ ran = [j \in Jobs |-> 0]
    /\ owner = [pc |-> Continue(0), i |-> 0, arrived |-> <<>>]
    /\ rx = <<>>
    /\ unordered_map = <<>>
    /\ output = <<>>

\* -------------------------------- workers --------------------------------

\* push_multiple(funcs) / Thread::new: the closure of worker w is given a
\* thread of its own and starts with barrier.wait()
Start(w) ==
    /\ wpc[w] = "queued"
    /\ wpc' = [wpc EXCEPT ![w] = "barrier"]
    /\ UNCHANGED <<pipeVars, chanVars, pool, input, global, worker, stealers, wstate, total_tasks, ran,
                   owner, rx, unordered_map, output>>

\* a barrier built for one thread more than there are closures
one_too_many == pool.N + 1

\* Barrier::new(num_threads), one party per closure of the batch
parties == pool.N

\* the closure of a worker: barrier.wait() returns once all parties have arrived
Barrier ==
    /\ pool.N > 0
    /\ Cardinality({w \in Workers : wpc[w] = "barrier"}) = parties
    /\ wpc' = [w \in Workers |-> IF wpc[w] = "barrier" THEN "pop" ELSE wpc[w]]
    /\ UNCHANGED <<pipeVars, chanVars, pool, input, global, worker, stealers, wstate, total_tasks, ran,
                   owner, rx, unordered_map, output>>

\* the match on a fetched job: a NewJob is run, a Terminate sets stop
Dispatch(w, job) ==
    /\ wpc' = [wpc EXCEPT ![w] = IF job.tag = "NewJob" THEN "run" ELSE "pop"]
    /\ wstate' = [wstate EXCEPT ![w] =
                    [stop |-> IF job.tag = "Terminate" THEN TRUE ELSE @.stop,
                     job |-> IF job.tag = "NewJob" THEN job ELSE NoJob,
                     i |-> 1]]

\* pop(): the head of the local FIFO deque
Pop(w) ==
    /\ wpc[w] = "pop"
    /\ IF worker[w] # <<>>
       THEN /\ worker' = [worker EXCEPT ![w] = Tail(@)]
            /\ Dispatch(w, Head(worker[w]))
       ELSE /\ wpc' = [wpc EXCEPT ![w] = IF pool.kind = "Registry" THEN "steal" ELSE "global"]
            /\ wstate' = [wstate EXCEPT ![w].i = 1]
            /\ UNCHANGED worker
    /\ UNCHANGED <<pipeVars, chanVars, pool, input, global, stealers, total_tasks, ran, owner, rx,
                   unordered_map, output>>

\* a worker that breaks at its first miss
always_stop(w) == TRUE

\* the exit test of the Registry worker (if stop)
were_told_to_stop(w) == wstate[w].stop

\* a worker that breaks without re-posting
NoRePost(g) == g

\* a worker that re-posts the sentinel twice
RePostTwice(g) == Append(Append(g, Terminate), Terminate)

\* what the Registry worker leaves in the injector when it breaks
RePost(g) == Append(g, Terminate)

\* a round of the loop found nothing
Miss(w) ==
    IF pool.kind = "Registry"
    THEN IF were_told_to_stop(w)
         THEN /\ global' = RePost(global)
              /\ wpc' = [wpc EXCEPT ![w] = "exit"]
         ELSE /\ wpc' = [wpc EXCEPT ![w] = "pop"]
              /\ UNCHANGED global
    ELSE /\ wpc' = [wpc EXCEPT ![w] = IF wstate[w].stop THEN "exit" ELSE "pop"]
         /\ UNCHANGED global

\* steal(): one stealer.steal() of the scan over the registered stealers.
\* A steal answers Retry only when it lost a race for an element, so only on
\* a deque that holds one.  Registry: Empty ends the scan, Retry moves on.
\* ThreadPool: Empty moves on, Retry tries the same stealer again.
Steal(w) ==
    /\ wpc[w] = "steal"
    /\ IF wstate[w].i > Len(stealers[w])
       THEN /\ IF pool.kind = "Registry"
               THEN /\ wpc' = [wpc EXCEPT ![w] = "global"]
                    /\ UNCHANGED global
               ELSE Miss(w)
            /\ wstate' = [wstate EXCEPT ![w].i = 1]
            /\ UNCHANGED worker
       ELSE LET peer == stealers[w][wstate[w].i] IN
            IF worker[peer] # <<>>
            THEN \/ /\ worker' = [worker EXCEPT ![peer] = Tail(@)]
                    /\ Dispatch(w, Head(worker[peer]))
                    /\ UNCHANGED global
                 \/ /\ pool.kind = "Registry"
                    /\ wstate' = [wstate EXCEPT ![w].i = @ + 1]
                    /\ UNCHANGED <<worker, wpc, global>>
            ELSE IF pool.kind = "Registry"
                 THEN /\ wpc' = [wpc EXCEPT ![w] = "global"]
                      /\ wstate' = [wstate EXCEPT ![w].i = 1]
                      /\ UNCHANGED <<worker, global>>
                 ELSE /\ wstate' = [wstate EXCEPT ![w].i = @ + 1]
                      /\ UNCHANGED <<worker, wpc, global>>
    /\ UNCHANGED <<pipeVars, chanVars, pool, input, stealers, total_tasks, ran, owner, rx, unordered_map, output>>

\* steal_from_global(): Registry takes the head of the injector; ThreadPool
\* takes a batch of unspecified size, pops its head and keeps the rest in the
\* local deque.  On Empty the Registry worker has missed everywhere.
StealFromGlobal(w) ==
    /\ wpc[w] = "global"
    /\ IF global # <<>>
       THEN \E k \in 1..(IF pool.kind = "Registry" THEN 1 ELSE Len(global)) :
                /\ global' = SubSeq(global, k + 1, Len(global))
                /\ worker' = [worker EXCEPT ![w] = @ \o SubSeq(global, 2, k)]
                /\ Dispatch(w, Head(global))
       ELSE /\ IF pool.kind = "Registry"
               THEN Miss(w)
               ELSE /\ wpc' = [wpc EXCEPT ![w] = "steal"]
                    /\ UNCHANGED global
            /\ UNCHANGED <<worker, wstate>>
    /\ UNCHANGED <<pipeVars, chanVars, pool, input, stealers, total_tasks, ran, owner, rx, unordered_map, output>>

\* the function given to par_map in the tests
f(el) == <<"Hello from: ", el>>

\* a job that sends every result under the index 0
ResultAtZero(j) == <<0, f(input[j + 1])>>

\* what the job of par_map sends: (el.0, f(el.1))
Result(j) == <<j, f(input[j + 1])>>

\* a task_done that counts a job twice
task_done_twice(n) == n - 2

\* the function given to par_for and the job given to scoped in the tests
increment(el) == el + 1

\* task_done(): fetch_sub(1)
task_done(n) == n - 1

\* the job runs to completion; the ThreadPool worker then counts it done
Run(w) ==
    /\ wpc[w] = "run"
    /\ LET j == wstate[w].job.id IN
       /\ ran' = [ran EXCEPT ![j] = @ + 1]
       /\ rx' = IF pool.mode = "par_map" THEN Append(rx, Result(j)) ELSE rx
       /\ input' = IF pool.mode = "par_for" THEN [input EXCEPT ![j + 1] = increment(@)]
                   ELSE input
    /\ total_tasks' = IF pool.kind = "ThreadPool" THEN task_done(total_tasks) ELSE total_tasks
    /\ wpc' = [wpc EXCEPT ![w] = "pop"]
    /\ wstate' = [wstate EXCEPT ![w].job = NoJob]
    /\ UNCHANGED <<pipeVars, chanVars, pool, global, worker, stealers, owner, unordered_map, output>>

\* --------------------------------- owner ---------------------------------

\* execute: injector.push(NewJob); Registry::execute is this push alone
Push ==
    /\ owner.pc = "execute"
    /\ global' = Append(global, NewJob(owner.i))
    /\ owner' = IF pool.kind = "Registry"
                THEN [owner EXCEPT !.i = @ + 1, !.pc = Continue(owner.i + 1)]
                ELSE [owner EXCEPT !.pc = "fetch_add"]
    /\ UNCHANGED <<pipeVars, chanVars, pool, input, worker, stealers, wpc, wstate, total_tasks, ran, rx,
                   unordered_map, output>>

\* execute: total_tasks.fetch_add(1), after the push
FetchAdd ==
    /\ owner.pc = "fetch_add"
    /\ total_tasks' = total_tasks + 1
    /\ owner' = [owner EXCEPT !.i = @ + 1, !.pc = Continue(owner.i + 1)]
    /\ UNCHANGED <<pipeVars, chanVars, pool, input, global, worker, stealers, wpc, wstate, ran, rx,
                   unordered_map, output>>

\* a wait that looks at the injector only
NothingOutstanding == FALSE

\* wait: the first operand of the loop condition
Outstanding == total_tasks # 0

\* wait: total_tasks.load() != 0 keeps spinning
WaitLoad ==
    /\ owner.pc = "wait"
    /\ ~Outstanding
    /\ owner' = [owner EXCEPT !.pc = "is_empty"]
    /\ UNCHANGED <<pipeVars, chanVars, pool, input, global, worker, stealers, wpc, wstate, total_tasks, ran,
                   rx, unordered_map, output>>

\* wait: !injector.is_empty() spins again, otherwise wait returns
WaitEmpty ==
    /\ owner.pc = "is_empty"
    /\ owner' = [owner EXCEPT !.pc = IF global # <<>> THEN "wait"
                                     ELSE IF pool.mode = "par_map" THEN "drain" ELSE "drop"]
    /\ UNCHANGED <<pipeVars, chanVars, pool, input, global, worker, stealers, wpc, wstate, total_tasks, ran,
                   rx, unordered_map, output>>

\* BTreeMap::into_values: the values in ascending order of their keys
into_values(map) ==
    [i \in 1..Cardinality(DOMAIN map) |->
        map[CHOOSE k \in DOMAIN map : Cardinality({l \in DOMAIN map : l < k}) = i - 1]]

\* par_map: while !rx.is_empty() insert the received pair; then into_values
Drain ==
    /\ owner.pc = "drain"
    /\ IF rx # <<>>
       THEN /\ unordered_map' = Insert(unordered_map, Head(rx)[1], Head(rx)[2])
            /\ rx' = Tail(rx)
            /\ owner' = [owner EXCEPT !.arrived = Append(@, Head(rx)[1])]
            /\ UNCHANGED output
       ELSE /\ output' = into_values(unordered_map)
            /\ owner' = [owner EXCEPT !.pc = "drop"]
            /\ UNCHANGED <<rx, unordered_map>>
    /\ UNCHANGED <<pipeVars, chanVars, pool, input, global, worker, stealers, wpc, wstate, total_tasks, ran>>

\* a drop that injects one Terminate for each worker
terminate_per_worker(g) == g \o [k \in 1..pool.N |-> Terminate]

\* Drop for Registry: self.global.push(Job::Terminate), once
inject_terminate(g) == Append(g, Terminate)

\* Drop for Registry: push Terminate to the injector
RegistryDrop ==
    /\ owner.pc = "drop"
    /\ pool.kind = "Registry"
    /\ global' = inject_terminate(global)
    /\ owner' = [owner EXCEPT !.pc = "join"]
    /\ UNCHANGED <<pipeVars, chanVars, pool, input, worker, stealers, wpc, wstate, total_tasks, ran, rx,
                   unordered_map, output>>

\* Drop for ThreadPool, first loop: clean_stealers of one worker; the write
\* lock waits for the read lock that the worker holds during its scan
CleanStealers ==
    /\ owner.pc \in {"drop", "clean"}
    /\ pool.kind = "ThreadPool"
    /\ LET k == IF owner.pc = "drop" THEN 1 ELSE owner.i IN
       /\ wpc[k] # "steal"
       /\ stealers' = [stealers EXCEPT ![k] = <<>>]
       /\ owner' = IF k < pool.N THEN [owner EXCEPT !.pc = "clean", !.i = k + 1]
                   ELSE [owner EXCEPT !.pc = "terminate", !.i = 1]
    /\ UNCHANGED <<pipeVars, chanVars, pool, input, global, worker, wpc, wstate, total_tasks, ran, rx,
                   unordered_map, output>>

\* Drop for ThreadPool, second loop: push Terminate to one local deque
PushTerminate ==
    /\ owner.pc = "terminate"
    /\ worker' = [worker EXCEPT ![owner.i] = Append(@, Terminate)]
    /\ owner' = IF owner.i < pool.N THEN [owner EXCEPT !.i = @ + 1]
                ELSE [owner EXCEPT !.pc = "join"]
    /\ UNCHANGED <<pipeVars, chanVars, pool, input, global, stealers, wpc, wstate, total_tasks, ran, rx,
                   unordered_map, output>>

\* the joins at the end of both drops
Join ==
    /\ owner.pc = "join"
    /\ \A w \in Workers : wpc[w] = "exit"
    /\ owner' = [owner EXCEPT !.pc = "done"]
    /\ UNCHANGED <<pipeVars, chanVars, pool, input, global, worker, stealers, wpc, wstate, total_tasks, ran,
                   rx, unordered_map, output>>

WorkerStep(w) ==
    /\ w \in Workers
    /\ Start(w) \/ Pop(w) \/ Steal(w) \/ StealFromGlobal(w) \/ Run(w)

PoolNext ==
    \/ \E w \in Workers : Start(w)
    \/ Barrier
    \/ \E w \in Workers : Pop(w)
    \/ \E w \in Workers : Steal(w)
    \/ \E w \in Workers : StealFromGlobal(w)
    \/ \E w \in Workers : Run(w)
    \/ Push
    \/ FetchAdd
    \/ WaitLoad
    \/ WaitEmpty
    \/ Drain
    \/ RegistryDrop
    \/ CleanStealers
    \/ PushTerminate
    \/ Join

PoolSpec == PoolInit /\ [][PoolNext]_vars

\* every worker thread keeps being scheduled
PoolFair ==
    /\ PoolSpec
    /\ WF_vars(Barrier)
    /\ \A w \in 1..MaxWorkers : WF_vars(WorkerStep(w))

\* ------------------------------ properties -------------------------------

\* wait() has returned to the owner
WaitReturned ==
    /\ pool.kind = "ThreadPool" /\ pool.wait
    /\ owner.pc \notin {"execute", "fetch_add", "wait", "is_empty"}

\* C5: no job of a ThreadPool runs twice, and once wait() has returned every
\* one of the M submitted jobs has run to completion and total_tasks is 0.
C5_WaitCompletes ==
    pool.kind = "ThreadPool" =>
        /\ \A j \in Jobs : ran[j] <= 1
        /\ WaitReturned =>
              /\ \A j \in Jobs : ran[j] = 1
              /\ total_tasks = 0

C5_Witness ==
    /\ WaitReturned /\ pool.mode = "execute"
    /\ owner.pc = "drop"
    /\ pool.N = MaxWorkers /\ Len(input) = MaxJobs
    /\ \A j \in Jobs : ran[j] = 1

\* par_map has returned to the owner
ParMapReturned ==
    /\ pool.mode = "par_map"
    /\ owner.pc \in {"drop", "clean", "terminate", "join", "done"}

\* C6: what par_map returns has the length of the input and f of the i-th
\* element of the input as its i-th element.
C6_ParMapInOrder ==
    ParMapReturned =>
        /\ Len(output) = Len(input)
        /\ \A i \in 1..Len(input) : output[i] = f(input[i])

\* the results arrived in descending order of their index
C6_Witness ==
    /\ ParMapReturned
    /\ Len(input) = MaxJobs /\ input[1] # input[2]
    /\ \A i \in 1..(MaxJobs - 1) : owner.arrived[i] > owner.arrived[i + 1]
    /\ Len(output) = MaxJobs

AllExited == \A w \in Workers : wpc[w] = "exit"

\* the jobs waiting in the injector or in a local deque
Queued ==
    {global[i].id : i \in {k \in 1..Len(global) : global[k].tag = "NewJob"}}
    \cup UNION {{worker[w][i].id : i \in {k \in 1..Len(worker[w]) : worker[w][k].tag = "NewJob"}} :
                  w \in Workers}

\* C7: when all the workers of a dropped pool have exited, every job submitted
\* has been executed and none is left in the injector or in a local deque.
C7_JobsBeforeTerminate ==
    AllExited =>
        /\ \A j \in Jobs : ran[j] = 1
        /\ Queued = {}

C7_Witness ==
    /\ AllExited
    /\ pool.kind = "Registry" /\ pool.N = MaxWorkers
    /\ Len(input) = MaxJobs
    /\ \A j \in Jobs : ran[j] = 1

\* C8: once the drop has injected its Terminate(s), every worker eventually
\* leaves its loop (so that the joins of the drop complete).
C8_WorkersExit == (owner.pc = "join") ~> AllExited

C8_Witness ==
    /\ owner.pc = "done"
    /\ pool.N = MaxWorkers
    /\ AllExited

\* ===========================================================================
\* Termination, the handle, the channels
\* ===========================================================================

\* a Terminate is the last message of the queue it is in
TerminateLast(q) == \A i \in 1..Len(q) : q[i].op = "Terminate" => i = Len(q)

\* C11: a stage sends at most one Terminate downstream, only when all of its
\* replicas have exited, so that nothing follows it on a channel of the next
\* node; and collect has passed on to the next node only after that Terminate.
C11_OneTerminateAfterJoin ==
    \A s \in 1..NStages :
        /\ Len(termSent[s]) <= 1
        /\ termSent[s] # <<>> => \A t \in Replicas(s) : pc[t] = "exit" /\ call[t] = NoCall
        /\ \A r \in DOMAIN channels[s + 1] : TerminateLast(channels[s + 1][r])
        /\ handle.node > s => Len(termSent[s]) = 1

C11_Witness ==
    /\ handle.op = "collected"
    /\ NStages = 2 /\ stages[1].R = 2
    /\ srcOrder = MaxItems
    /\ \A s \in 1..NStages : Len(termSent[s]) = 1

\* the Terminates in a queue
Terminates(q) == Cardinality({i \in 1..Len(q) : q[i].op = "Terminate"})

\* the Terminates put so far on the channel of replica t: those still queued and
\* the one the replica has left its loop on
TerminatesPut(t) == Terminates(channels[t[1]][t[2]]) + IF pc[t] = "exit" THEN 1 ELSE 0

C13_UnorderedForwardsOrder ==
    \A s \in 2..NStages :
        ~stages[s].ordered /\ termSent[s] # <<>> => termSent[s][1] = termSent[s - 1][1]

\* C14: on one handle collect and terminate are each run at most once and
\* never both; the call that ran collect returned the sink's finalized value,
\* a call after it returned None, and the handle is then without first block.
C14_CollectOnce ==
    /\ handle.collects + handle.terminates <= 1
    /\ handle.first_block => handle.collects + handle.terminates = 0
    /\ handle.op = "collected" => handle.result = Finalize /\ handle.collects = 1
    /\ handle.second = "None" => handle.op = "collected" /\ ~handle.first_block

C14_Witness ==
    /\ handle.op = "collected" /\ handle.second = "None" /\ ~handle.alive
    /\ handle.collects = 1 /\ handle.terminates = 0
    /\ handle.result = MaxItems

\* C15: when the wait() that follows scoped or par_for has returned, the job of
\* every element has run exactly once: every element has been incremented once.
C15_ParForOnce ==
    pool.mode = "par_for" =>
        /\ \A j \in Jobs : ran[j] <= 1 /\ input[j + 1] = ran[j]
        /\ WaitReturned => \A j \in Jobs : ran[j] = 1 /\ input[j + 1] = 1

C15_Witness ==
    /\ pool.mode = "par_for" /\ WaitReturned
    /\ pool.N = MaxWorkers /\ Len(input) = MaxJobs
    /\ \A j \in Jobs : input[j + 1] = 1

\* ===========================================================================
\* One channel (mpsc/channel_ff.rs, mpsc/channel_flume.rs)
\* ===========================================================================
\* Channel::channel(blocking) builds one receiver, held by the consumer thread,
\* and one sender handle shared by chan.N sender threads.  The queue of the
\* underlying library is a FIFO queue.  Sender s sends the items <<s, 1>>,
\* <<s, 2>>, ... and may drop its handle at any time; the sender side is closed
\* when every handle has been dropped.  The threads use the channel as the
\* nodes do: a sender panics when its send fails, as InOutNode::send and rts
\* do; the consumer calls receive in the loop of rts, which it leaves when it
\* receives Terminate, and its thread may end by a panic at any time.

\* the most sender threads of a channel
MaxSenders == 2
\* the most items the sender threads send, all together
MaxSends == 3

SenderIds == 1..chan.N

NoResult == [tag |-> "nocall", val |-> <<>>]

ChanInit ==
    /\ PipeIdle
    /\ PoolIdle
    /\ chan \in [kind : {"ff", "flume"}, blocking : BOOLEAN, N : 1..MaxSenders]
    /\ buffer = <<>>
    /\ tx = [s \in SenderIds |-> [alive |-> TRUE, sent |-> 0, panicked |-> FALSE]]
    /\ consumer = [pc |-> "idle", last |-> NoResult, log |-> <<>>, seen |-> {},
                   returns |-> 0]
    /\ sendLog = <<>>

\* a push that puts the item at the head of the queue
PushFront(q, msg) == <<msg>> \o q

\* ch.push(Box::new(msg)) / self.tx.send(msg) on the library's queue
Enqueue(q, msg) == Append(q, msg)

\* the number of send calls for items made by the threads 1..n
RECURSIVE Sends(_)
Sends(n) == IF n = 0 THEN 0 ELSE tx[n].sent + Sends(n - 1)

\* the Terminate message
TerminateItem == <<0, 0>>

\* a caller that goes on after a failed send
ignore_err(h) == h

\* if res.is_err() { panic!("Error: Cannot send message!") }: the thread
\* unwinds and its handle is dropped
panic(h) == [h EXCEPT !.alive = FALSE, !.panicked = TRUE]

\* Sender::send of the item msg by thread s: under the mutex (ff) or in the
\* library (flume) the item is queued; with the receiver dropped the send is
\* an Err, queues nothing, and the caller panics
SendItem(s, msg) ==
    LET called == [tx[s] EXCEPT !.sent = IF msg = TerminateItem THEN @ ELSE @ + 1]
    IN  IF consumer.pc # "dropped"
        THEN /\ buffer' = Enqueue(buffer, msg)
             /\ sendLog' = Append(sendLog, msg)
             /\ tx' = [tx EXCEPT ![s] = called]
        ELSE /\ tx' = [tx EXCEPT ![s] = panic(called)]
             /\ UNCHANGED <<buffer, sendLog>>

\* a thread sends its next item
ChanSend(s) ==
    /\ tx[s].alive /\ Sends(chan.N) < MaxSends
    /\ SendItem(s, <<s, tx[s].sent + 1>>)
    /\ UNCHANGED <<pipeVars, poolVars, chan, consumer>>

\* a thread sends the Terminate of the stream, once
SendTerminate(s) ==
    /\ tx[s].alive
    /\ \A i \in 1..Len(sendLog) : sendLog[i] # TerminateItem
    /\ SendItem(s, TerminateItem)
    /\ UNCHANGED <<pipeVars, poolVars, chan, consumer>>

\* the thread drops its sender handle
SenderDrop(s) ==
    /\ tx[s].alive
    /\ tx' = [tx EXCEPT ![s].alive = FALSE]
    /\ UNCHANGED <<pipeVars, poolVars, chan, buffer, consumer, sendLog>>

\* a test that takes one dropped handle for a closed sender side
AnyDisconnected == \E s \in SenderIds : ~tx[s].alive

\* rx.is_disconnected() / TryRecvError::Disconnected: no sender handle is left
is_disconnected == \A s \in SenderIds : ~tx[s].alive

\* the match of rts on what receive returned: the Terminate arm breaks out of
\* the loop; the other arms, the Err arm with its warn! too, go round again
after_receive(r) ==
    IF r.tag = "Some" /\ r.val = TerminateItem THEN "exit" ELSE "idle"

\* receive returns r to the consumer; returns is the parity of the number of
\* returns, which tells a return from a step that leaves the consumer alone
Returned(r) ==
    [consumer EXCEPT !.pc = after_receive(r), !.last = r, !.returns = 1 - @,
                     !.log = IF r.tag = "Some" THEN Append(@, r.val) ELSE @,
                     !.seen = @ \cup {r.tag}]

\* FFInputChannel::receive: rx.try_pop()
TryPop ==
    /\ chan.kind = "ff" /\ ~chan.blocking
    /\ consumer.pc = "idle"
    /\ IF buffer # <<>>
       THEN /\ consumer' = Returned([tag |-> "Some", val |-> Head(buffer)])
            /\ buffer' = Tail(buffer)
       ELSE /\ consumer' = [consumer EXCEPT !.pc = "is_disconnected"]
            /\ UNCHANGED buffer
    /\ UNCHANGED <<pipeVars, poolVars, chan, tx, sendLog>>

\* FFInputChannel::receive: after None of try_pop, Err if disconnected, else Ok(None)
IsDisconnected ==
    /\ consumer.pc = "is_disconnected"
    /\ consumer' = Returned([tag |-> IF is_disconnected THEN "Err" ELSE "None", val |-> <<>>])
    /\ UNCHANGED <<pipeVars, poolVars, chan, buffer, tx, sendLog>>

\* FlumeInputChannel::receive: rx.try_recv()
TryRecv ==
    /\ chan.kind = "flume" /\ ~chan.blocking
    /\ consumer.pc = "idle"
    /\ IF buffer # <<>>
       THEN /\ consumer' = Returned([tag |-> "Some", val |-> Head(buffer)])
            /\ buffer' = Tail(buffer)
       ELSE /\ consumer' = Returned([tag |-> IF is_disconnected THEN "Err" ELSE "None",
                                     val |-> <<>>])
            /\ UNCHANGED buffer
    /\ UNCHANGED <<pipeVars, poolVars, chan, tx, sendLog>>

\* FFBlockingInputChannel::receive (rx.pop()) and FlumeBlockingInputChannel::receive
\* (rx.recv()): wait for an item; Err when the queue is empty and disconnected
BlockingReceive ==
    /\ chan.blocking
    /\ consumer.pc = "idle"
    /\ IF buffer # <<>>
       THEN /\ consumer' = Returned([tag |-> "Some", val |-> Head(buffer)])
            /\ buffer' = Tail(buffer)
       ELSE /\ is_disconnected
            /\ consumer' = Returned([tag |-> "Err", val |-> <<>>])
            /\ UNCHANGED buffer
    /\ UNCHANGED <<pipeVars, poolVars, chan, tx, sendLog>>

\* the consumer's thread ends, by a panic or after the loop, and the receiver
\* is dropped
ConsumerDrop ==
    /\ consumer.pc \in {"idle", "exit"}
    /\ consumer' = [consumer EXCEPT !.pc = "dropped"]
    /\ UNCHANGED <<pipeVars, poolVars, chan, buffer, tx, sendLog>>

ChanNext ==
    \/ \E s \in SenderIds : ChanSend(s)
    \/ \E s \in SenderIds : SendTerminate(s)
    \/ \E s \in SenderIds : SenderDrop(s)
    \/ TryPop
    \/ IsDisconnected
    \/ TryRecv
    \/ BlockingReceive
    \/ ConsumerDrop

ChanSpec == ChanInit /\ [][ChanNext]_vars

\* the items of sender s in a sequence of items, in order
RECURSIVE From(_, _)
From(q, s) ==
    IF q = <<>> THEN <<>>
    ELSE (IF Head(q)[1] = s THEN <<Head(q)[2]>> ELSE <<>>) \o From(Tail(q), s)

\* C16: what the consumer has received, followed by what is queued, is the
\* sequence of items in the order the channel took them: nothing is lost,
\* duplicated or overtaken, and the items of one sender are received in the
\* order that sender sent them.
C16_ChannelFifo ==
    /\ consumer.log \o buffer = sendLog
    /\ \A s \in SenderIds :
           From(consumer.log, s) = [k \in 1..Len(From(consumer.log, s)) |-> k]

C16_Witness ==
    /\ chan.N = MaxSenders
    /\ Len(consumer.log) = MaxSends
    /\ \A s \in SenderIds : tx[s].sent >= 1
    /\ consumer.log[1][1] # consumer.log[2][1]
    /\ buffer = <<>>

\* C17: a non-blocking receive returns Ok(Some(x)) exactly when it finds an
\* item x at the head of the queue, Ok(None) only when it found the queue
\* empty and a sender handle is left, and Err only when it found the queue
\* empty and no sender handle is left.
C17_NonBlockingReceive ==
    [][(~chan.blocking /\ consumer'.returns # consumer.returns) =>
          LET r == consumer'.last IN
          /\ (consumer.pc = "idle" /\ buffer # <<>>) =>
                 r = [tag |-> "Some", val |-> Head(buffer)]
          /\ r.tag = "Some" => consumer.pc = "idle" /\ buffer # <<>>
          /\ r.tag = "None" =>
                 /\ \E s \in SenderIds : tx[s].alive
                 /\ consumer.pc = "is_disconnected" \/ buffer = <<>>
          /\ r.tag = "Err" =>
                 /\ \A s \in SenderIds : ~tx[s].alive
                 /\ consumer.pc = "is_disconnected" \/ buffer = <<>>
          /\ r.tag \in {"Some", "None", "Err"}]_vars

C17_Witness ==
    /\ ~chan.blocking /\ chan.N = MaxSenders
    /\ consumer.seen = {"Some", "None", "Err"}
    /\ consumer.last.tag = "Err"

\* C18: a local deque changes only in a step of the thread of its worker
\* (pop, steal_batch_and_pop into it, push) or when a peer takes a job from it
\* through its stealer; no other thread pushes to it or pops from it.
C18_LocalDequeOwner ==
    [][\A w \in Workers :
          worker'[w] # worker[w] =>
              \/ WorkerStep(w)
              \/ \E v \in Workers \ {w} : Steal(v)]_vars

\* the sequence 0, 1, ..., n - 1
Prefix(n) == [i \in 1..n |-> i - 1]

\* C19: on every channel the orders of the messages put on it are, in the
\* order they were put, 0, 1, 2, ... without gap or repetition.
C19_ContiguousOrders ==
    \A s \in Nodes : \A r \in DOMAIN emitted[s] :
        emitted[s][r] = Prefix(Len(emitted[s][r]))

\* C20: the orders of the messages put on the input channel of the replica
\* of an ordered stage with one replica are 0, 1, 2, ... in the order they
\* were put, whatever the order in which they reached send().
C20_SerialisedOrders ==
    \A s \in 1..NStages :
        stages[s].R = 1 /\ stages[s].ordered =>
            emitted[s][0] = Prefix(Len(emitted[s][0]))

\* a message that reached send() of the second stage ahead of its turn was
\* stored, and send_pending has put it on the channel
C20_Witness ==
    /\ NStages = 2 /\ stages[1].R = MaxReplicas
    /\ stages[2].R = 1 /\ stages[2].ordered
    /\ \E t \in Senders :
          /\ call[t].nested /\ pc[t] # "fwd" /\ Target(t) = 2
          /\ call[t].order >= 1
          /\ call[t].order < Len(emitted[2][0])

\* ===========================================================================
\* The ingress buffer, the ordered splitter, the replica loop
\* ===========================================================================

\* C21: when a send() that found its message in turn at a single-replica
\* ordered stage has forwarded it, incremented next_msg and returns, storage
\* holds no message under the key next_msg.
C21_ForwardDrains ==
    [][\A t \in Senders :
          (pc[t] = "inc_store" /\ ~call[t].nested /\ pc'[t] # "inc_store"
               /\ Serialising(Target(t))) =>
              next_msg'[Target(t)] \notin DOMAIN storage'[Target(t)]]_vars

\* C22: when a Terminate with order n is put on the channel of the replica of
\* a single-replica ordered stage, the messages with the orders 0 .. n-1 have
\* all been put on it before, also when the Terminate had to wait in storage.
C22_TerminateAfterSmaller ==
    [][\A t \in Senders :
          (pc[t] = "fwd" /\ pc'[t] # "fwd" /\ call[t].op = "Terminate"
               /\ Serialising(Target(t))) =>
              emitted[Target(t)][0] = Prefix(call[t].order)]_vars

\* a Terminate that found earlier messages missing was stored, and send_pending
\* has put it on the channel after them
C22_Witness ==
    \E t \in Senders :
        /\ call[t].nested /\ call[t].op = "Terminate" /\ pc[t] = "pend_reload"
        /\ Target(t) \in 1..NStages /\ Serialising(Target(t))
        /\ call[t].order >= 2
        /\ emitted[Target(t)][0] = Prefix(call[t].order + 1)

ProducerOrdered(s) == stages[s].producer /\ stages[s].ordered

\* a replica that is sending an item it produced
SendingProduced(t) == call[t].op # "None" /\ call[t].orig = "NewTask"

\* C23: in a producer+ordered stage a replica sends a produced item only while
\* it is the one replica inside the splitter and latest is the order of its
\* input; when it leaves the splitter latest is that order plus one and start
\* has grown by the size of its batch.
C23_SplitterExclusive ==
    [][\A s \in 1..NStages : ProducerOrdered(s) =>
          \A t \in Replicas(s) :
              /\ SendingProduced(t)' =>
                    /\ splitter_lock'[s] = t
                    /\ ordered_splitter'[s].latest = local'[t].order
                    /\ \A u \in Replicas(s) \ {t} : ~SendingProduced(u)'
              /\ ((pc[t] = "split_wait" \/ splitter_lock[s] = t) /\ pc'[t] = "recv") =>
                    /\ ordered_splitter[s].latest = local[t].order
                    /\ ordered_splitter'[s].latest = local[t].order + 1
                    /\ ordered_splitter'[s].start =
                           ordered_splitter[s].start + batches[s][local[t].order]]_vars

\* a replica waits for its turn while the other one, after an earlier batch has
\* been sent, is sending the second item of its batch
C23_Witness ==
    \E s \in 1..NStages : \E t, u \in Replicas(s) :
        /\ ProducerOrdered(s) /\ t # u
        /\ splitter_lock[s] = t /\ SendingProduced(t)
        /\ ordered_splitter[s].latest >= 1
        /\ local[t].cs > ordered_splitter[s].start
        /\ pc[u] = "split_wait" /\ local[u].order > ordered_splitter[s].latest

\* C24: a replica of a producer+ordered stage that waits for its turn in the
\* ordered splitter is never left waiting in a state from which no thread of
\* the pipeline can take a step: its turn comes and it emits its batch.
C24_SplitterTurnComes ==
    \A s \in 1..NStages : \A t \in Replicas(s) :
        (ProducerOrdered(s) /\ pc[t] = "split_wait" /\ local[t].tmp # <<>>) =>
            ENABLED Next

\* C25: in a single-replica ordered stage a message saved to storage does not
\* stay there for ever: storage is empty when the stage's Terminate has
\* reached the replica, and the pipeline never comes to rest with a message
\* in storage, whether the upstream stage is ordered or not.
C25_StorageDrained ==
    \A d \in 1..NStages : Serialising(d) =>
        /\ pc[<<d, 0>>] = "exit" => storage[d] = <<>>
        /\ storage[d] # <<>> => ENABLED Next

\* C26: a replica of a non-producer stage that receives a NewTask or a Dropped
\* makes one call of next_node.send with the order of that message: NewTask
\* with the value run returned or Dropped for a NewTask, Dropped for a Dropped;
\* when the call returns the replica is back at receive, having sent nothing
\* else.
C26_OneOutPerIn ==
    [][\A s \in 1..NStages : ~stages[s].producer =>
          \A t \in Replicas(s) :
              /\ (pc[t] = "recv" /\ pc'[t] \notin {"recv", "exit"}) =>
                    LET m == Head(channels[s][t[2]])
                    IN  /\ m.op \in {"NewTask", "Dropped"}
                        /\ call'[t].order = m.order
                        /\ call'[t].op = call'[t].orig
                        /\ \/ call'[t].op = "Dropped"
                           \/ m.op = "NewTask" /\ call'[t].op = "NewTask"
                                 /\ call'[t].val = m.val
                        /\ (call'[t].op = "Dropped" /\ m.op = "NewTask") => stages[s].filter
                        /\ s < NStages => received'[s + 1] = received[s + 1] + 1
              /\ (pc[t] = "recv" /\ pc'[t] \in {"recv", "exit"}) =>
                    call'[t] = NoCall
              /\ (pc[t] # "recv" /\ call[t].op # "None" /\ call'[t].op = "None") =>
                    pc'[t] = "recv"
              /\ (pc[t] \notin {"recv", "exit"}) => call[t].op # "None"]_vars

\* a filtering farm whose replica was given a second message and answers it
\* with Dropped, after an earlier message has gone through
C26_Witness ==
    /\ NStages = 1 /\ stages[1].filter /\ ~stages[1].producer
    /\ \E t \in Replicas(1) :
          /\ call[t].op = "Dropped" /\ call[t].order >= 1
          /\ Len(emitted[2][0]) >= 1
          /\ sinkLog # <<>>

\* C27: once the blocking receive of a replica has returned Err, the sender
\* side being closed, the replica leaves its loop: no call of receive returns
\* to it after that.
C27_ErrEndsReplica ==
    [][(chan.blocking /\ consumer.last.tag = "Err") =>
          consumer'.returns = consumer.returns]_vars

NotCompleted ==
    Queued \cup {wstate[w].job.id : w \in {v \in Workers : wstate[v].job.tag = "NewJob"}}

\* C29: total_tasks of a ThreadPool is never below zero (as a usize it never
\* wraps round), and whenever no execute is between its push and its
\* fetch_add it is the number of jobs submitted and not yet completed.
C29_TotalTasksCount ==
    pool.kind = "ThreadPool" =>
        /\ total_tasks >= 0
        /\ owner.pc # "fetch_add" => total_tasks = Cardinality(NotCompleted)

\* ------------------------- the scan over the peers -----------------------

\* the peers a scanning worker has registered beyond itself
MaxPeers == 2

\* the jobs that earlier batches left in the local deque of worker w
RECURSIVE Held(_, _, _)
Held(place, w, j) ==
    IF j >= Len(input) THEN <<>>
    ELSE (IF place[j] = w THEN <<NewJob(j)>> ELSE <<>>) \o Held(place, w, j + 1)

\* The pools at a moment when the injector is empty, worker 1 has missed on
\* its own deque and on the injector, and the owner has submitted all it
\* had.  The deques of a ThreadPool hold what steal_batch_and_pop left
\* there; those of a Registry hold nothing, WorkerThread::push having no
\* caller.
ScanInit ==
    /\ PipeIdle
    /\ ChanIdle
    /\ pool \in {[kind |-> k, mode |-> "execute", N |-> n, wait |-> (k = "ThreadPool")] :
                     k \in {"Registry", "ThreadPool"}, n \in 2..(MaxPeers + 1)}
    /\ \E m \in 0..MaxJobs :
           input = [i \in 1..(IF pool.kind = "Registry" THEN 0 ELSE m) |-> 0]
    /\ global = <<>>
    /\ \E place \in [Jobs -> 2..pool.N] :
           worker = [w \in Workers |-> Held(place, w, 0)]
    /\ stealers = [w \in Workers |->
                     IF pool.kind = "Registry" THEN RegistryStealers(w) ELSE AddStealers(w, 1)]
    /\ wpc = [w \in Workers |-> IF w = 1 THEN "steal" ELSE "pop"]
    /\ wstate = [w \in Workers |-> NoState]
    /\ total_tasks = Len(input)
    /\ ran = [j \in Jobs |-> 0]
    /\ owner = [pc |-> Continue(Len(input)), i |-> Len(input), arrived |-> <<>>]
    /\ rx = <<>>
    /\ unordered_map = <<>>
    /\ output = <<>>

\* the workers fetch while the owner waits
ScanNext ==
    \/ \E w \in Workers : Pop(w)
    \/ \E w \in Workers : Steal(w)
    \/ \E w \in Workers : StealFromGlobal(w)

ScanSpec == ScanInit /\ [][ScanNext]_vars

\* the peers that the scan of w has tried once this step is taken
Tried(w) ==
    {stealers[w][k] : k \in {n \in 1..Len(stealers[w]) : n <= wstate[w].i}}

\* C30: a steal() that returns without a job has tried every peer, so an
\* empty peer does not end the scan, and a steal attempt on a peer whose
\* deque holds a job returns that job instead of moving on.
C30_StealTriesEveryPeer ==
    [][\A w \in Workers :
          (wpc[w] = "steal" /\ (wpc'[w] # "steal" \/ wstate'[w] # wstate[w])) =>
              /\ wpc'[w] \notin {"steal", "run"} => Tried(w) = Workers \ {w}
              /\ (/\ wstate[w].i <= Len(stealers[w])
                  /\ worker[stealers[w][wstate[w].i]] # <<>>) =>
                     /\ wpc'[w] = "run"
                     /\ wstate'[w].job = Head(worker[stealers[w][wstate[w].i]])]_vars

\* C31: a worker turns to the injector only after its pop() gave nothing, and
\* to its peers only after the injector gave nothing as well.
C31_FetchOrder ==
    [][\A w \in Workers :
          /\ (wpc[w] # "global" /\ wpc'[w] = "global") =>
                 (wpc[w] = "pop" /\ worker[w] = <<>>)
          /\ (wpc[w] # "steal" /\ wpc'[w] = "steal") =>
                 (wpc[w] = "global" /\ global = <<>>)]_vars

\* C32: a Registry worker leaves its loop only with its stop flag set and
\* after a round in which its own deque, its peers and the injector held no
\* job; the step that leaves appends exactly one Terminate to the injector;
\* a worker whose round found nothing and whose flag is not set goes back to
\* pop().
C32_RegistryExit ==
    [][pool.kind = "Registry" => \A w \in Workers :
          /\ (wpc[w] # "exit" /\ wpc'[w] = "exit") =>
                 /\ wstate[w].stop
                 /\ worker[w] = <<>>
                 /\ \A k \in 1..Len(stealers[w]) : worker[stealers[w][k]] = <<>>
                 /\ global = <<>>
                 /\ global' = <<Terminate>>
          /\ (wpc[w] = "global" /\ global = <<>> /\ ~wstate[w].stop
                 /\ wpc'[w] # wpc[w]) =>
                 (wpc'[w] = "pop" /\ global' = <<>>)]_vars

\* a Registry worker has left after the other one, each having run a job
C32_Witness ==
    /\ pool.kind = "Registry"
    /\ pool.N = 2
    /\ \A w \in Workers : wpc[w] = "exit"
    /\ \A j \in Jobs : ran[j] = 1
    /\ Len(input) = 2

\* ------------------------ routing to a wider stage -----------------------

\* pipelines of two farms: a polling stage and a producer before a farm of 3,
\* where the second stage has more replicas than the first and the first
\* more than one, and an ordered farm before an ordered farm, where two
\* replicas call the send() of an ordered stage
Routes ==
    {<<Stage(2, FALSE, FALSE, FALSE, FALSE), Stage(3, FALSE, FALSE, FALSE, TRUE)>>,
     <<Stage(2, FALSE, TRUE, FALSE, TRUE), Stage(3, FALSE, FALSE, FALSE, TRUE)>>,
     <<Stage(2, TRUE, FALSE, FALSE, TRUE), Stage(2, TRUE, FALSE, FALSE, TRUE)>>}

RouteInit == PipeInit(Routes)

\* the steps of a pipeline without a single-replica ordered stage and
\* without an ordered producer
RouteNext ==
    \/ SourceRun
    \/ \E t \in AllReplicas : Receive(t)
    \/ \E t \in AllReplicas : EmptyPoll(t)
    \/ \E t \in Senders : SendFwd(t)
    \/ \E t \in Senders : SendIncLoad(t)
    \/ \E t \in Senders : SendIncStore(t)
    \/ SinkReceive
    \/ WaitAndCollect
    \/ DropHandle
    \/ WaitAndCollectNone
    \/ DropCollected
    \/ JoinSource
    \/ NodeWait
    \/ SinkCollect

RouteSpec == RouteInit /\ [][RouteNext]_vars

\* the stage of replica t sends to a wider stage and has several replicas
Widening(t) ==
    /\ t[1] \in 1..NStages
    /\ stages[t[1]].R > 1
    /\ get_num_of_replicas(t[1] + 1) > stages[t[1]].R

\* the replica the next send of t goes to
TargetReplica(t) == RecId(t[1] + 1, LoopTop(t, local[t].counter))

\* t is inside a call of next_node.send
InSend(t) == call[t].op # "None"

\* C33: a replica of a stage that sends to a wider stage starts at
\* id * (R_next / R); its target moves only when one of its sends returns,
\* and then by exactly one modulo R_next, so that each send that follows
\* another goes to the next downstream replica.
C33_CounterPerSend ==
    /\ \A t \in AllReplicas :
           Widening(t) =>
               local[t].counter =
                   RtsId(t) * (get_num_of_replicas(t[1] + 1) \div stages[t[1]].R)
    /\ [][\A t \in AllReplicas : Widening(t) =>
            /\ TargetReplica(t)' # TargetReplica(t) => (InSend(t) /\ call'[t] # call[t])
            /\ (InSend(t) /\ call'[t] # call[t]) =>
                   TargetReplica(t)' = (TargetReplica(t) + 1) % get_num_of_replicas(t[1] + 1)]_vars

\* C34: with the ff channel, a non-blocking receive that returns Err leaves
\* no sent item unreceived: every item pushed before the sender side closed
\* has been returned by an earlier receive.
C34_NoErrBeforeItems ==
    [][(/\ chan.kind = "ff" /\ ~chan.blocking
        /\ consumer'.returns # consumer.returns
        /\ consumer'.last.tag = "Err") => buffer' = <<>>]_vars

\* a closure of the batch has not got past the start barrier
AtBarrier(w) == wpc[w] \in {"queued", "barrier"}

C36_NextMsgCounts ==
    [][\A d \in 1..NStages : stages[d].ordered =>
          /\ \A t \in Senders :
                 (Target(t) = d /\ pc[t] = "inc_store" /\ pc'[t] # "inc_store") =>
                     next_msg'[d] = next_msg[d] + 1
          /\ next_msg'[d] # next_msg[d] =>
                 \E t \in Senders :
                     Target(t) = d /\ pc[t] = "inc_store" /\ pc'[t] # "inc_store"]_vars

\* the Terminate tokens of a Registry: those in the injector and those taken
\* by a worker that has set its stop flag and has not left its loop
Tokens ==
    Cardinality({i \in 1..Len(global) : global[i].tag = "Terminate"})
    + Cardinality({w \in Workers : wstate[w].stop /\ wpc[w] # "exit"})

\* C37: from the drop of a Registry on there is exactly one Terminate token,
\* in the injector or with a worker that is about to leave, and once every
\* worker has left it is in the injector.
C37_OneTerminate ==
    (pool.kind = "Registry" /\ owner.pc \in {"join", "done"}) =>
        /\ Tokens = 1
        /\ \A w \in Workers : worker[w] = <<>>
        /\ AllExited => global = <<Terminate>>

\* the token has gone through every worker and is back in the injector
C37_Witness ==
    /\ pool.kind = "Registry"
    /\ pool.N = MaxWorkers
    /\ AllExited
    /\ \A w \in Workers : wstate[w].stop
    /\ global = <<Terminate>>

\* C38: the send() that send_pending calls with the storage mutex held never
\* goes to save_to_storage, where it would wait for that mutex for ever; it
\* forwards.
C38_NestedSendForwards ==
    \A t \in Senders :
        (call[t].nested /\ pc[t] \notin {"pend_loop", "pend_reload"}) =>
            /\ pc[t] \in {"fwd", "inc_load", "inc_store"}
            /\ storage_lock[Target(t)] = t

\* a nested send forwards a stored message while another caller of the same
\* stage is inside its own send()
C38_Witness ==
    \E t \in Senders : \E u \in Senders \ {t} :
        /\ Target(t) = Target(u)
        /\ call[t].nested
        /\ pc[t] = "fwd"
        /\ call[t].op = "NewTask"
        /\ pc[u] \in {"check", "save", "pend_lock"}

=============================================================================
